---- MODULE Spec2Model ----
(***************************************************************************)
(* Model of the mlambda micro SDK: the Server.Start / Server.doWork loop   *)
(* that bridges a handler goroutine to the Lambda runtime API through an   *)
(* io.Pipe, and the responseWriter that encodes an http response as the    *)
(* API-gateway JSON envelope.                                              *)
(*                                                                         *)
(* Input domain: every Write the handler makes carries at least one byte   *)
(* and fits the bufio.Reader buffer; the invocation body is delivered      *)
(* without transport failure until the root context is canceled; header    *)
(* keys are canonical (set through Header().Add) and need no escaping; the *)
(* sink of the responseWriter accepts every write.                         *)
(*                                                                         *)
(* Specifications: Spec (Server.Start with its handler goroutine),         *)
(* SpecHttp (HttpHandler decoding an envelope and driving a                *)
(* responseWriter), SpecConc (goroutines of one http.Handler calling       *)
(* WriteHeader and Write concurrently).                                    *)
(***************************************************************************)
EXTENDS Integers, Sequences, FiniteSets, TLC

\* ---------------------------------------------------------------- bounds
\* invocations polled in one run of Start
MaxPolls == 2
\* Write calls one handler makes
MaxWrites == 2
\* bytes of an invocation body
MaxBody == 1

\* ------------------------------------------------------------- constants
NoErr == "nil"
EOF == "EOF"
ErrClosedPipe == "io: read/write on closed pipe"
Canceled == "context canceled"
DeadlineExceeded == "context deadline exceeded"
HandlerErrorType == "Handler.Error"
\* errors a handler may return on its own account (io.EOF among them: a
\* handler that reads its request body can hand the reader's io.EOF back)
HandlerErrors == {"boom", EOF}
\* the byte chunks a handler passes to Write
Chunks == {<<80>>, <<79, 78>>}

VARIABLES
    pc,          \* where Start/doWork stands
    cur,         \* number of invocations polled so far
    stragglers,  \* handler goroutines of earlier invocations that still run
    parentDone,  \* the root context (signal.NotifyContext) is canceled
    startErr,    \* what Start returned: NoErr, or the poll error
    req,         \* the request of the latest poll (doWork's req)
    ctx,         \* Err() of its derived context, or "none" / "active"
    pipe,        \* its io.Pipe
    task,        \* its handler goroutine
    bufReader,   \* the bufio.Reader over pipeReader
    err,         \* doWork's err after the Peek
    upload,      \* what the http client read from the body it was given
    calls,       \* the invocationResponse / invocationError calls made for it
    \* --- HttpHandler: one responseWriter and the handler that uses it
    rw,          \* the responseWriter: sentHeaders, header, body (base64 encoder)
    w,           \* the Writes the responseWriter's sink received, in order
    ops,         \* the calls the http.Handler made on the responseWriter, in order
    httpPc,      \* "decoding", "serving" (h.ServeHTTP runs), "finished", "failed"
    proxyRequest,\* the inbound envelope HttpHandler is invoked with
    httpReq,     \* the http.Request HttpHandler built from it
    httpRet,     \* what HttpHandler returned, "none" while it runs
    \* --- an http.Handler that calls the responseWriter from several goroutines
    mu,          \* responseWriter.mu: 0, or the goroutine that holds it
    thr,         \* per goroutine: where it stands in its call, and the call
    encoderSet,  \* r.body is not nil
    lockOrder    \* the goroutines in the order they acquired mu

bridgeVars == <<pc, cur, stragglers, parentDone, startErr, req, ctx, pipe, task, bufReader, err, upload, calls>>
concVars == <<mu, thr, encoderSet, lockOrder>>
httpVars == <<rw, w, ops, httpPc, proxyRequest, httpReq, httpRet, concVars>>
vars == <<bridgeVars, httpVars>>

\* ------------------------------------------------------------ io.Pipe
NewPipe == [done |-> FALSE, werr |-> NoErr, rerr |-> NoErr, wr |-> <<>>]

\* faulty variant: the writer end is closed without the error
closeWriteAsClose(p, e) ==
    [p EXCEPT !.werr = IF p.werr = NoErr THEN EOF ELSE @, !.done = TRUE]

\* PipeWriter.Close / CloseWithError: the first error stored wins, nil is EOF
closeWrite(p, e) ==
    [p EXCEPT !.werr = IF p.werr = NoErr THEN (IF e = NoErr THEN EOF ELSE e) ELSE @,
              !.done = TRUE]

\* PipeReader.Close
closeRead(p) ==
    [p EXCEPT !.rerr = IF p.rerr = NoErr THEN ErrClosedPipe ELSE @,
              !.done = TRUE]

\* what a Read of a closed pipe returns
readCloseError(p) ==
    IF p.rerr = NoErr /\ p.werr # NoErr THEN p.werr ELSE ErrClosedPipe

\* --------------------------------------------------------- contexts
\* faulty variant: context.WithCancel(parentCtx) whatever the deadline
WithCancelOnly(parentIsDone, deadline) ==
    IF parentIsDone THEN Canceled ELSE "active"

\* context.WithCancel(parentCtx) / context.WithDeadline(parentCtx, deadline)
DeriveContext(parentIsDone, deadline) ==
    IF parentIsDone THEN Canceled
    ELSE IF deadline = "past" THEN DeadlineExceeded
    ELSE "active"

\* cancelling a context that may already be done
cancelCtx(c, e) == IF c = "active" THEN e ELSE c

IsDone(c) == c \in {Canceled, DeadlineExceeded}

\* ------------------------------------------------------------- Init
NoReq == [deadline |-> "zero", polled |-> FALSE, id |-> 0, len |-> 0, body |-> 0, closed |-> FALSE]
NoTask == [pc |-> "none", ret |-> NoErr, wrote |-> <<>>, nread |-> 0]
NoUpload == [read |-> <<>>, end |-> "none"]

BridgeInit ==
    /\ pc = "loop"
    /\ cur = 0
    /\ stragglers = 0
    /\ parentDone = FALSE
    /\ startErr = NoErr
    /\ req = NoReq
    /\ ctx = "none"
    /\ pipe = NewPipe
    /\ task = NoTask
    /\ bufReader = <<>>
    /\ err = NoErr
    /\ upload = NoUpload
    /\ calls = <<>>

\* ------------------------------------------------- the environment
\* faulty variant: the derived context is no child of the root context
propagateNothing(c) == c

\* SIGINT / SIGTERM: the root context is canceled, and with it every
\* context derived from it
propagateCancel(c) == cancelCtx(c, Canceled)

RootCancel ==
    /\ pc # "returned"
    /\ ~parentDone
    /\ parentDone' = TRUE
    /\ ctx' = propagateCancel(ctx)
    /\ UNCHANGED <<pc, cur, stragglers, startErr, req, pipe, task, bufReader, err, upload, calls>>
    /\ UNCHANGED httpVars

InFlight == pc \in {"dispatch", "peek", "invocationError", "errorWait",
                    "invocationResponse", "streaming", "responseWait",
                    "deferPipe", "deferCtx", "deferBody"}

\* the clock reaches the deadline of the invocation in flight
DeadlineExpire ==
    /\ InFlight
    /\ req.deadline = "future"
    /\ req' = [req EXCEPT !.deadline = "past"]
    /\ ctx' = cancelCtx(ctx, DeadlineExceeded)
    /\ UNCHANGED <<pc, cur, stragglers, parentDone, startErr, pipe, task, bufReader, err, upload, calls>>
    /\ UNCHANGED httpVars

\* ------------------------------------------------------ Server.Start
\* the select at the top of the main loop
StartLoop ==
    /\ pc = "loop"
    /\ IF parentDone
       THEN /\ pc' = "returned"
            /\ startErr' = NoErr
       ELSE /\ pc' = "nextInvocation"
            /\ UNCHANGED startErr
    /\ UNCHANGED <<cur, stragglers, parentDone, req, ctx, pipe, task, bufReader, err, upload, calls>>
    /\ UNCHANGED httpVars

\* ----------------------------------------------------- Server.doWork
\* client.nextInvocation answers 2xx: id, deadline header and body
\* (the goroutine of the invocation before, if it still runs, keeps its own
\* closed pipe, canceled context and closed body, and is counted in stragglers)
NextInvocationOk(deadline, len) ==
    /\ pc = "nextInvocation"
    /\ ~parentDone
    /\ cur < MaxPolls
    /\ cur' = cur + 1
    /\ req' = [deadline |-> deadline, polled |-> TRUE, id |-> cur + 1,
               len |-> len, body |-> len, closed |-> FALSE]
    /\ stragglers' = IF task.pc \in {"none", "exited"} THEN stragglers ELSE stragglers + 1
    /\ ctx' = "none"
    /\ pipe' = NewPipe
    /\ task' = NoTask
    /\ bufReader' = <<>>
    /\ err' = NoErr
    /\ upload' = NoUpload
    /\ calls' = <<>>
    /\ pc' = "dispatch"
    /\ UNCHANGED <<parentDone, startErr>>
    /\ UNCHANGED httpVars

\* faulty variant: the loop polls again after a failed poll
NextInvocationFailRetries ==
    /\ pc = "nextInvocation"
    /\ pc' = "loop"
    /\ UNCHANGED <<cur, stragglers, parentDone, startErr, req, ctx, pipe, task, bufReader, err, upload, calls>>
    /\ UNCHANGED httpVars

\* client.nextInvocation fails (transport failure, non-2xx, canceled context):
\* doWork returns the error and Start returns it
NextInvocationFail ==
    /\ pc = "nextInvocation"
    /\ startErr' = "next: error"
    /\ pc' = "returned"
    /\ UNCHANGED <<cur, stragglers, parentDone, req, ctx, pipe, task, bufReader, err, upload, calls>>
    /\ UNCHANGED httpVars

\* the Handler a Server is built with: a HandlerFunc of its own, or
\* HttpHandler(h), which decodes the envelope before h runs
HandlerKinds == {"running", "decoding"}

\* derive the context, make the pipe, launch the handler goroutine
Dispatch(h) ==
    /\ pc = "dispatch"
    /\ ctx' = DeriveContext(parentDone, req.deadline)
    /\ pipe' = NewPipe
    /\ task' = [task EXCEPT !.pc = h]
    /\ bufReader' = <<>>
    /\ err' = NoErr
    /\ pc' = "peek"
    /\ UNCHANGED <<cur, stragglers, parentDone, startErr, req, upload, calls>>
    /\ UNCHANGED httpVars

\* faulty variant: the peeked byte is consumed
fillDropsPeeked(buf, data) == buf \o Tail(data)

\* bufio.Reader.fill: the bytes one pipe Read delivered join the buffer
fill(buf, data) == buf \o data

\* faulty variant: io.EOF counts as a failure
PeekBranchEofIsError(e) ==
    IF e # NoErr THEN "invocationError" ELSE "invocationResponse"

\* the branch after Peek: err != nil && !errors.Is(err, io.EOF)
PeekBranch(e) ==
    IF e # NoErr /\ e # EOF THEN "invocationError" ELSE "invocationResponse"

\* faulty variant: the orchestrator collects the output until the writer end
\* is closed, and decides on the handler's result
PeekAwaitsClose ==
    /\ pc = "peek"
    /\ \/ /\ pipe.wr # <<>>
          /\ ~pipe.done
          /\ bufReader' = fill(bufReader, pipe.wr)
          /\ pipe' = [pipe EXCEPT !.wr = <<>>]
          /\ task' = [task EXCEPT !.pc = "running",
                                  !.wrote = Append(@, pipe.wr)]
          /\ UNCHANGED <<err, pc>>
       \/ /\ pipe.done
          /\ err' = readCloseError(pipe)
          /\ pc' = PeekBranch(readCloseError(pipe))
          /\ UNCHANGED <<bufReader, pipe, task>>
    /\ UNCHANGED <<cur, stragglers, parentDone, startErr, req, ctx, upload, calls>>
    /\ UNCHANGED httpVars

\* faulty variant: a done context ends the Peek
PeekUnblockedByCancel ==
    /\ pc = "peek"
    /\ \/ /\ pipe.wr # <<>>
          /\ ~pipe.done
          /\ bufReader' = fill(bufReader, pipe.wr)
          /\ pipe' = [pipe EXCEPT !.wr = <<>>]
          /\ task' = [task EXCEPT !.pc = "running",
                                  !.wrote = Append(@, pipe.wr)]
          /\ err' = NoErr
          /\ pc' = PeekBranch(NoErr)
       \/ /\ pipe.done
          /\ err' = readCloseError(pipe)
          /\ pc' = PeekBranch(readCloseError(pipe))
          /\ UNCHANGED <<bufReader, pipe, task>>
       \/ /\ IsDone(ctx)
          /\ err' = ctx
          /\ pc' = PeekBranch(ctx)
          /\ UNCHANGED <<bufReader, pipe, task>>
    /\ UNCHANGED <<cur, stragglers, parentDone, startErr, req, ctx, upload, calls>>
    /\ UNCHANGED httpVars

\* bufReader.Peek(1): returns once the handler is in a Write (the bytes move
\* to the buffer and the Write returns) or the writer end is closed
Peek ==
    /\ pc = "peek"
    /\ \/ /\ pipe.wr # <<>>
          /\ ~pipe.done
          /\ bufReader' = fill(bufReader, pipe.wr)
          /\ pipe' = [pipe EXCEPT !.wr = <<>>]
          /\ task' = [task EXCEPT !.pc = "running",
                                  !.wrote = Append(@, pipe.wr)]
          /\ err' = NoErr
          /\ pc' = PeekBranch(NoErr)
       \/ /\ pipe.done
          /\ err' = readCloseError(pipe)
          /\ pc' = PeekBranch(readCloseError(pipe))
          /\ UNCHANGED <<bufReader, pipe, task>>
    /\ UNCHANGED <<cur, stragglers, parentDone, startErr, req, ctx, upload, calls>>
    /\ UNCHANGED httpVars

SetResult(res) == [calls EXCEPT ![Len(calls)].result = res]

\* faulty variant: the error branch returns without reporting
InvocationErrorSkipped ==
    /\ pc = "invocationError"
    /\ pc' = "deferPipe"
    /\ UNCHANGED <<cur, stragglers, parentDone, startErr, req, ctx, pipe, task, bufReader, err, upload, calls>>
    /\ UNCHANGED httpVars

\* client.invocationError is called with the Peek error
InvocationError ==
    /\ pc = "invocationError"
    /\ calls' = Append(calls, [id |-> req.id, result |-> "pending", op |-> "error",
                               errorType |-> HandlerErrorType,
                               errorMessage |-> err])
    /\ pc' = "errorWait"
    /\ UNCHANGED <<cur, stragglers, parentDone, startErr, req, ctx, pipe, task, bufReader, err, upload>>
    /\ UNCHANGED httpVars

\* faulty variant: the deferred close of the pipe is left out
AfterCallSkipsPipeClose(res) == "deferCtx"

\* faulty variant: doWork returns the error of the call
AfterCallReturnsErr(res) == IF res = "error" THEN "returned" ELSE "deferPipe"

\* what doWork does with the result of an outbound call: `_ = ...`, so the
\* deferred calls run next and doWork returns nil
AfterCall(res) == "deferPipe"

\* faulty variant: the client calls are made under the invocation's ctx
callUnderCtx(parentIsDone, c) == IsDone(c)

\* the context handed to the client calls is parentCtx: whether the
\* request built by http.NewRequestWithContext is canceled
callUnderParentCtx(parentIsDone, c) == parentIsDone

\* client.invocationError returns: nil on a 2xx answer, else an error
InvocationErrorReturn(res) ==
    /\ pc = "errorWait"
    /\ res = "ok" => ~callUnderParentCtx(parentDone, ctx)
    /\ calls' = SetResult(res)
    /\ pc' = AfterCall(res)
    /\ startErr' = IF AfterCall(res) = "returned" THEN "call: error" ELSE startErr
    /\ UNCHANGED <<cur, stragglers, parentDone, req, ctx, pipe, task, bufReader, err, upload>>
    /\ UNCHANGED httpVars

\* client.invocationResponse is called with bufReader as the body
InvocationResponse ==
    /\ pc = "invocationResponse"
    /\ calls' = Append(calls, [id |-> req.id, result |-> "pending", op |-> "response",
                               errorType |-> "", errorMessage |-> ""])
    /\ pc' = "streaming"
    /\ UNCHANGED <<cur, stragglers, parentDone, startErr, req, ctx, pipe, task, bufReader, err, upload>>
    /\ UNCHANGED httpVars

\* the http client reads the request body from bufReader
BodyRead ==
    /\ pc = "streaming"
    /\ \/ /\ bufReader # <<>>
          /\ upload' = [upload EXCEPT !.read = @ \o bufReader]
          /\ bufReader' = <<>>
          /\ pc' = pc
          /\ UNCHANGED <<pipe, task, calls, startErr>>
       \/ /\ bufReader = <<>>
          /\ pipe.wr # <<>>
          /\ ~pipe.done
          /\ upload' = [upload EXCEPT !.read = @ \o pipe.wr]
          /\ pipe' = [pipe EXCEPT !.wr = <<>>]
          /\ task' = [task EXCEPT !.pc = "running",
                                  !.wrote = Append(@, pipe.wr)]
          /\ pc' = pc
          /\ UNCHANGED <<bufReader, calls, startErr>>
       \/ /\ bufReader = <<>>
          /\ pipe.done
          /\ readCloseError(pipe) = EOF
          /\ upload' = [upload EXCEPT !.end = "eof"]
          /\ pc' = "responseWait"
          /\ UNCHANGED <<bufReader, pipe, task, calls, startErr>>
       \/ /\ bufReader = <<>>
          /\ pipe.done
          /\ readCloseError(pipe) # EOF
          /\ upload' = [upload EXCEPT !.end = "error"]
          /\ calls' = SetResult("error")
          /\ pc' = AfterCall("error")
          /\ startErr' = IF AfterCall("error") = "returned" THEN "call: error" ELSE startErr
          /\ UNCHANGED <<bufReader, pipe, task>>
    /\ UNCHANGED <<cur, stragglers, parentDone, req, ctx, err>>
    /\ UNCHANGED httpVars

\* the transport fails, or the root context is canceled, while the body is
\* being sent
InvocationResponseAbort ==
    /\ pc = "streaming"
    /\ calls' = SetResult("error")
    /\ pc' = AfterCall("error")
    /\ startErr' = IF AfterCall("error") = "returned" THEN "call: error" ELSE startErr
    /\ UNCHANGED <<cur, stragglers, parentDone, req, ctx, pipe, task, bufReader, err, upload>>
    /\ UNCHANGED httpVars

\* client.invocationResponse returns after the body was sent to its end
InvocationResponseReturn(res) ==
    /\ pc = "responseWait"
    /\ res = "ok" => ~callUnderParentCtx(parentDone, ctx)
    /\ calls' = SetResult(res)
    /\ pc' = AfterCall(res)
    /\ startErr' = IF AfterCall(res) = "returned" THEN "call: error" ELSE startErr
    /\ UNCHANGED <<cur, stragglers, parentDone, req, ctx, pipe, task, bufReader, err, upload>>
    /\ UNCHANGED httpVars

\* faulty variant: only the reader end is closed
ClosePipeReaderOnly(p) == closeRead(p)

\* deferred: pipeReader.Close(); pipeWriter.Close()
ClosePipeEnds(p) == closeWrite(closeRead(p), NoErr)

\* faulty variant: doWork returns without closing the pipe
DeferPipeSkipped ==
    /\ pc = "deferPipe"
    /\ pc' = "deferCtx"
    /\ UNCHANGED <<cur, stragglers, parentDone, startErr, req, ctx, pipe, task, bufReader, err, upload, calls>>
    /\ UNCHANGED httpVars

DeferPipe ==
    /\ pc = "deferPipe"
    /\ pipe' = ClosePipeEnds(pipe)
    /\ pc' = "deferCtx"
    /\ UNCHANGED <<cur, stragglers, parentDone, startErr, req, ctx, task, bufReader, err, upload, calls>>
    /\ UNCHANGED httpVars

\* faulty variant: the cancel function is never called
ctxDoneSkipped(c) == c

\* deferred: ctxDone()
ctxDone(c) == cancelCtx(c, Canceled)

DeferCtx ==
    /\ pc = "deferCtx"
    /\ ctx' = ctxDone(ctx)
    /\ pc' = "deferBody"
    /\ UNCHANGED <<cur, stragglers, parentDone, startErr, req, pipe, task, bufReader, err, upload, calls>>
    /\ UNCHANGED httpVars

\* deferred: io.Copy(io.Discard, req.body) reads on
DrainBody ==
    /\ pc = "deferBody"
    /\ req.body > 0
    /\ ~parentDone
    /\ req' = [req EXCEPT !.body = @ - 1]
    /\ UNCHANGED <<pc, cur, stragglers, parentDone, startErr, ctx, pipe, task, bufReader, err, upload, calls>>
    /\ UNCHANGED httpVars

\* faulty variant: the body is closed without being drained
CopyEndsAnywhere(r, parentIsDone) == TRUE

\* io.Copy ends at end-of-stream, or at the read error of a canceled request
CopyEnds(r, parentIsDone) == r.body = 0 \/ parentIsDone

\* deferred: req.body.Close(); doWork returns nil
CloseBody ==
    /\ pc = "deferBody"
    /\ CopyEnds(req, parentDone)
    /\ req' = [req EXCEPT !.closed = TRUE]
    /\ pc' = "loop"
    /\ UNCHANGED <<cur, stragglers, parentDone, startErr, ctx, pipe, task, bufReader, err, upload, calls>>
    /\ UNCHANGED httpVars

\* ----------------------------------------------- the handler goroutine
\* the handler reads a byte of Request.Body
HandlerRead ==
    /\ task.pc = "running"
    /\ req.body > 0
    /\ ~req.closed
    /\ ~parentDone
    /\ req' = [req EXCEPT !.body = @ - 1]
    /\ task' = [task EXCEPT !.nread = @ + 1]
    /\ UNCHANGED <<pc, cur, stragglers, parentDone, startErr, ctx, pipe, bufReader, err, upload, calls>>
    /\ UNCHANGED httpVars

\* the handler calls Write(c) on pipeWriter: it blocks until a Read takes
\* the bytes, and fails at once on a closed pipe
HandlerWrite(c) ==
    /\ task.pc = "running"
    /\ IF pipe.done
       THEN UNCHANGED <<task, pipe>>
       ELSE /\ Len(task.wrote) < MaxWrites
            /\ task' = [task EXCEPT !.pc = "writing"]
            /\ pipe' = [pipe EXCEPT !.wr = c]
    /\ UNCHANGED <<pc, cur, stragglers, parentDone, startErr, req, ctx, bufReader, err, upload, calls>>
    /\ UNCHANGED httpVars

\* a blocked Write returns ErrClosedPipe once the pipe is closed
HandlerWriteFail ==
    /\ task.pc = "writing"
    /\ pipe.done
    /\ task' = [task EXCEPT !.pc = "running"]
    /\ pipe' = [pipe EXCEPT !.wr = <<>>]
    /\ UNCHANGED <<pc, cur, stragglers, parentDone, startErr, req, ctx, bufReader, err, upload, calls>>
    /\ UNCHANGED httpVars

\* the goroutine of an earlier invocation ends: its Writes fail on the
\* closed pipe, Invoke returns and the writer end is closed once more
StragglerExit ==
    /\ stragglers > 0
    /\ stragglers' = stragglers - 1
    /\ UNCHANGED <<pc, cur, parentDone, startErr, req, ctx, pipe, task, bufReader, err, upload, calls>>
    /\ UNCHANGED httpVars

\* Handler.Invoke returns: nil, an error of its own, or ctx.Err()
HandlerReturn(e) ==
    /\ task.pc = "running"
    /\ e \in {NoErr} \cup HandlerErrors \cup (IF IsDone(ctx) THEN {ctx} ELSE {})
    /\ task' = [task EXCEPT !.pc = "returned", !.ret = e]
    /\ UNCHANGED <<pc, cur, stragglers, parentDone, startErr, req, ctx, pipe, bufReader, err, upload, calls>>
    /\ UNCHANGED httpVars

\* the goroutine closes the writer end: CloseWithError(err), or Close()
HandlerClose ==
    /\ task.pc = "returned"
    /\ pipe' = closeWrite(pipe, task.ret)
    /\ task' = [task EXCEPT !.pc = "exited"]
    /\ UNCHANGED <<pc, cur, stragglers, parentDone, startErr, req, ctx, bufReader, err, upload, calls>>
    /\ UNCHANGED httpVars

\* ================================================== responseWriter
\* bounds: calls the http.Handler makes on the responseWriter
MaxOps == 3

StatusCodes == {201, 404}
HeaderKeys == {"Set-Cookie", "Content-Type", "X-Id"}
HeaderValues == [k \in HeaderKeys |->
                   IF k = "Set-Cookie" THEN {"x=1", "y=2"}
                   ELSE IF k = "Content-Type" THEN {"text/plain"} ELSE {"7"}]
\* the byte slices the http.Handler passes to Write ("hello", "hi")
Bodies == {<<104, 101, 108, 108, 111>>, <<104, 105>>}

Digit == <<"0", "1", "2", "3", "4", "5", "6", "7", "8", "9">>

\* jsontext.Int(n).String(), n >= 0
RECURSIVE Itoa(_)
Itoa(n) == IF n < 10 THEN Digit[n + 1] ELSE Itoa(n \div 10) \o Digit[(n % 10) + 1]

\* jsontext.AppendQuote of a string that needs no escaping
AppendQuote(str) == "\"" \o str \o "\""

\* base64.StdEncoding: the alphabet and one 3-byte group
encodeStd == 
    <<"A", "B", "C", "D", "E", "F", "G", "H", "I", "J", "K", "L", "M", "N", "O", "P",
      "Q", "R", "S", "T", "U", "V", "W", "X", "Y", "Z", "a", "b", "c", "d", "e", "f",
      "g", "h", "i", "j", "k", "l", "m", "n", "o", "p", "q", "r", "s", "t", "u", "v",
      "w", "x", "y", "z", "0", "1", "2", "3", "4", "5", "6", "7", "8", "9", "+", "/">>

Encode3(a, b, c) ==
    encodeStd[(a \div 4) + 1] \o encodeStd[((a % 4) * 16 + (b \div 16)) + 1]
        \o encodeStd[((b % 16) * 4 + (c \div 64)) + 1] \o encodeStd[(c % 64) + 1]

RECURSIVE EncodeGroups(_)
EncodeGroups(bs) ==
    IF Len(bs) < 3 THEN ""
    ELSE Encode3(bs[1], bs[2], bs[3]) \o EncodeGroups(SubSeq(bs, 4, Len(bs)))

\* the bytes of bs that fill no 3-byte group
Rest(bs) == SubSeq(bs, Len(bs) - (Len(bs) % 3) + 1, Len(bs))

\* base64 encoder Close: the last, padded group
EncodeLast(bs) ==
    IF Len(bs) = 0 THEN ""
    ELSE IF Len(bs) = 1
    THEN encodeStd[(bs[1] \div 4) + 1] \o encodeStd[((bs[1] % 4) * 16) + 1] \o "=="
    ELSE encodeStd[(bs[1] \div 4) + 1] \o encodeStd[((bs[1] % 4) * 16 + (bs[2] \div 16)) + 1]
             \o encodeStd[((bs[2] % 16) * 4) + 1] \o "="

\* a Write to the sink; the base64 encoder makes none when it has no output
SinkWrite(out, str) == IF str = "" THEN out ELSE Append(out, str)

RECURSIVE JoinQuoted(_)
JoinQuoted(vs) ==
    IF vs = <<>> THEN ""
    ELSE AppendQuote(Head(vs)) \o (IF Len(vs) > 1 THEN "," ELSE "") \o JoinQuoted(Tail(vs))

\* "cookies":[...], when there are Set-Cookie values
CookiesText(cs) ==
    IF Len(cs) > 0 THEN AppendQuote("cookies") \o ":[" \o JoinQuoted(cs) \o "]," ELSE ""

\* the keys of the header map, in one of the orders `range` may visit them
Present(h) == {k \in HeaderKeys : h[k] # <<>>}
KeyOrders(h) ==
    {o \in UNION {[1..n -> Present(h)] : n \in {Cardinality(Present(h))}} :
        \A i, j \in DOMAIN o : i # j => o[i] # o[j]}

RECURSIVE HeaderEntries(_, _)
HeaderEntries(h, order) ==
    IF order = <<>> THEN ""
    ELSE AppendQuote(Head(order)) \o ":[" \o JoinQuoted(h[Head(order)]) \o "]"
             \o (IF Len(order) > 1 THEN "," ELSE "") \o HeaderEntries(h, Tail(order))

\* "multiValueHeaders":{...}, when the header map is not empty
HeadersText(h, order) ==
    IF Present(h) # {}
    THEN AppendQuote("multiValueHeaders") \o ":{" \o HeaderEntries(h, order) \o "},"
    ELSE ""

\* what sendHeaders writes to the sink
Preamble(statusCode, cs, h, order) ==
    "{" \o AppendQuote("isBase64Encoded") \o ":" \o "true" \o ","
        \o AppendQuote("statusCode") \o ":" \o Itoa(statusCode) \o ","
        \o CookiesText(cs) \o HeadersText(h, order)
        \o AppendQuote("body") \o ":\""

\* faulty variant: the Set-Cookie entry stays in the header map
KeepSetCookie(h) == h

\* r.header.Del("set-cookie")
DelSetCookie(h) == [h EXCEPT !["Set-Cookie"] = <<>>]

\* faulty variant: no sentHeaders test
sendHeadersAgain(r, out, statusCode, order) ==
    [rw |-> [r EXCEPT !.sentHeaders = TRUE, !.header = DelSetCookie(r.header), !.body = <<>>],
     w |-> Append(out, Preamble(statusCode, r.header["Set-Cookie"],
                                DelSetCookie(r.header), order))]

\* responseWriter.sendHeaders; the result is the writer and the sink after it
sendHeaders(r, out, statusCode, order) ==
    IF r.sentHeaders THEN [rw |-> r, w |-> out]
    ELSE [rw |-> [r EXCEPT !.sentHeaders = TRUE,
                           !.header = DelSetCookie(r.header),
                           !.body = <<>>],
          w |-> Append(out, Preamble(statusCode, r.header["Set-Cookie"],
                                     DelSetCookie(r.header), order))]

\* ================================================== HttpHandler: decoding
\* characters are one-character strings; CTL is an ASCII control character
CTL == "\t"
HexDigits == {"0", "1", "2", "3", "4", "5", "6", "7", "8", "9", "a", "b", "c", "d", "e", "f"}

\* the inbound envelopes: a body that is no JSON object at all, or the fields
\* json.UnmarshalRead found (no field carries a ':', so no URL has a scheme)
InboundBodies ==
    {<<>>, <<"a", "G", "V", "s">>, <<"a", "G", "V", "s", "b", "G", "8", "=">>,
     <<"a", "G", "V", "s", "b", "G", "8">>, <<"a", "G", "k", "=">>, <<"a">>}
RawPaths == {<<>>, <<"/", "a">>, <<"a">>, <<"/", "%", "z">>}
RawQueryStrings == {<<>>, <<"q">>, <<CTL>>}
Malformed ==
    [wellFormed |-> FALSE, IsBase64Encoded |-> FALSE, Body |-> <<>>,
     RawPath |-> <<>>, RawQueryString |-> <<>>]
Envelopes ==
    {Malformed} \cup
    [wellFormed : {TRUE}, IsBase64Encoded : BOOLEAN, Body : InboundBodies,
     RawPath : RawPaths, RawQueryString : RawQueryStrings]

ErrJson == "json: malformed input"
ErrBase64 == "illegal base64 data"
ErrUrl == "parsing rawpath and rawquery"
\* jsonv2.UnmarshalRead could not read Request.Body to its end
ErrRead == "read: context canceled"
DecodeErrors == {ErrJson, ErrBase64, ErrUrl, ErrRead}

\* base64.RawStdEncoding: the alphabet of StdEncoding, no padding character
IsStdChar(c) == \E i \in 1..64 : encodeStd[i] = c
decodeMap(c) == (CHOOSE i \in 1..64 : encodeStd[i] = c) - 1

Corrupt == [ok |-> FALSE, bytes |-> <<>>]

\* base64.RawStdEncoding.DecodeString: quanta of four characters, a last
\* quantum of two or three; any character outside the alphabet ('=' too) and
\* a lone last character are corrupt input
RECURSIVE DecodeString(_)
DecodeString(cs) ==
    IF cs = <<>> THEN [ok |-> TRUE, bytes |-> <<>>]
    ELSE LET n == IF Len(cs) < 4 THEN Len(cs) ELSE 4
             v(i) == IF i <= n THEN decodeMap(cs[i]) ELSE 0
         IN IF (\E i \in 1..n : ~IsStdChar(cs[i])) \/ n = 1 THEN Corrupt
            ELSE LET quantum == <<v(1) * 4 + (v(2) \div 16),
                                  (v(2) % 16) * 16 + (v(3) \div 4),
                                  (v(3) % 4) * 64 + v(4)>>
                     rest == DecodeString(SubSeq(cs, n + 1, Len(cs)))
                 IN IF rest.ok
                    THEN [ok |-> TRUE, bytes |-> SubSeq(quantum, 1, n - 1) \o rest.bytes]
                    ELSE Corrupt

\* the part of a URL before the first '?'
RECURSIVE PathOf(_)
PathOf(cs) ==
    IF cs = <<>> \/ Head(cs) = "?" THEN <<>> ELSE <<Head(cs)>> \o PathOf(Tail(cs))

\* every '%' of the path starts a %XX escape
ValidEscapes(cs) ==
    \A i \in 1..Len(cs) :
        cs[i] = "%" => (i + 2 <= Len(cs) /\ cs[i + 1] \in HexDigits /\ cs[i + 2] \in HexDigits)

\* url.ParseRequestURI succeeds: no control character, a path that starts
\* with '/' (there is no scheme) and has valid escapes
ParseRequestURI(cs) ==
    /\ \A i \in 1..Len(cs) : cs[i] # CTL
    /\ cs # <<>>
    /\ PathOf(cs) # <<>> /\ Head(PathOf(cs)) = "/"
    /\ ValidEscapes(PathOf(cs))

\* urlStr: RawPath, then "?" and RawQueryString when there is one
UrlStr(e) ==
    e.RawPath \o (IF e.RawQueryString # <<>> THEN <<"?">> \o e.RawQueryString ELSE <<>>)

\* []byte(proxyRequest.Body): the ASCII code of each character
Ascii(c) ==
    IF c = "=" THEN 61
    ELSE LET i == decodeMap(c)
         IN IF i < 26 THEN 65 + i
            ELSE IF i < 52 THEN 97 + (i - 26)
            ELSE IF i < 62 THEN 48 + (i - 52)
            ELSE IF i = 62 THEN 43 ELSE 47
BytesOf(cs) == [i \in 1..Len(cs) |-> Ascii(cs[i])]

NoHttpReq == [Body |-> <<>>, RequestURI |-> <<>>]

\* HttpHandler up to h.ServeHTTP: the error it returns, or the http.Request
HttpDecode(e) ==
    IF ~e.wellFormed THEN [req |-> NoHttpReq, err |-> ErrJson]
    ELSE IF e.IsBase64Encoded /\ ~DecodeString(e.Body).ok
    THEN [req |-> NoHttpReq, err |-> ErrBase64]
    ELSE IF UrlStr(e) # <<>> /\ ~ParseRequestURI(UrlStr(e))
    THEN [req |-> NoHttpReq, err |-> ErrUrl]
    ELSE [req |-> [Body |-> IF e.IsBase64Encoded THEN DecodeString(e.Body).bytes
                            ELSE BytesOf(e.Body),
                   RequestURI |-> UrlStr(e)],
          err |-> NoErr]

\* the goroutine of a Server whose Handler is HttpHandler(h): Invoke reads
\* the whole Request.Body, decodes the envelope e it holds (an empty body
\* holds none) and returns the decode error, or goes on to h.ServeHTTP
Invoke(e) ==
    /\ task.pc = "decoding"
    /\ LET readFails == (parentDone \/ req.closed) /\ req.body > 0
           d == HttpDecode(IF req.len = 0 THEN Malformed ELSE e)
           res == IF readFails THEN ErrRead ELSE d.err
       IN /\ req' = IF readFails THEN req ELSE [req EXCEPT !.body = 0]
          /\ task' = IF res = NoErr
                     THEN [task EXCEPT !.pc = "running", !.nread = @ + req.body]
                     ELSE [task EXCEPT !.pc = "returned", !.ret = res,
                                       !.nread = IF readFails THEN @ ELSE @ + req.body]
    /\ UNCHANGED <<pc, cur, stragglers, parentDone, startErr, ctx, pipe, bufReader, err, upload, calls>>
    /\ UNCHANGED httpVars

\* a call the http.Handler makes on the responseWriter
Op(name, code, key, val, data) ==
    [data |-> data, op |-> name, code |-> code, key |-> key, val |-> val]

\* bound: goroutines of the http.Handler, each making one call
MaxGoroutines == 2
Goroutines == 1..MaxGoroutines

Idle == [pc |-> "idle", op |-> Op("none", 0, "", "", <<>>)]

\* no goroutine of the handler is in a call
ConcIdle ==
    /\ mu = 0
    /\ thr = [t \in Goroutines |-> Idle]
    /\ encoderSet = FALSE
    /\ lockOrder = <<>>

HttpInit ==
    /\ rw = [body |-> <<>>, sentHeaders |-> FALSE, header |-> [k \in HeaderKeys |-> <<>>]]
    /\ w = <<>>
    /\ ops = <<>>
    /\ httpPc = "decoding"
    /\ httpReq = NoHttpReq
    /\ httpRet = "none"
    /\ ConcIdle

\* HttpHandler decodes the envelope: it returns the decode error, or goes on
\* to h.ServeHTTP with a fresh responseWriter
Decode ==
    /\ httpPc = "decoding"
    /\ LET d == HttpDecode(proxyRequest)
       IN /\ httpReq' = d.req
          /\ httpPc' = IF d.err = NoErr THEN "serving" ELSE "failed"
          /\ httpRet' = IF d.err = NoErr THEN "none" ELSE d.err
    /\ UNCHANGED <<rw, w, ops, proxyRequest>>
    /\ UNCHANGED bridgeVars
    /\ UNCHANGED concVars

\* the http.Handler calls w.Header().Add(k, v)
HeaderAdd(k, v) ==
    /\ httpPc = "serving"
    /\ Len(ops) < MaxOps
    /\ rw' = [rw EXCEPT !.header[k] = Append(@, v)]
    /\ ops' = Append(ops, Op("Header", 0, k, v, <<>>))
    /\ UNCHANGED <<w, httpPc, proxyRequest, httpReq, httpRet>>
    /\ UNCHANGED bridgeVars
    /\ UNCHANGED concVars

\* responseWriter.WriteHeader
WriteHeader(statusCode) ==
    /\ httpPc = "serving"
    /\ Len(ops) < MaxOps
    /\ \E order \in KeyOrders(DelSetCookie(rw.header)) :
          LET s == sendHeaders(rw, w, statusCode, order)
          IN /\ rw' = s.rw
             /\ w' = s.w
    /\ ops' = Append(ops, Op("WriteHeader", statusCode, "", "", <<>>))
    /\ UNCHANGED <<httpPc, proxyRequest, httpReq, httpRet>>
    /\ UNCHANGED bridgeVars
    /\ UNCHANGED concVars

\* responseWriter.Write
Write(p) ==
    /\ httpPc = "serving"
    /\ Len(ops) < MaxOps
    /\ \E order \in KeyOrders(DelSetCookie(rw.header)) :
          LET s == sendHeaders(rw, w, 200, order)
          IN /\ rw' = [s.rw EXCEPT !.body = Rest(s.rw.body \o p)]
             /\ w' = SinkWrite(s.w, EncodeGroups(s.rw.body \o p))
    /\ ops' = Append(ops, Op("Write", 0, "", "", p))
    /\ UNCHANGED <<httpPc, proxyRequest, httpReq, httpRet>>
    /\ UNCHANGED bridgeVars
    /\ UNCHANGED concVars

\* faulty variant: the base64 encoder is not closed
finishNoFlush ==
    /\ httpPc = "serving"
    /\ \E order \in KeyOrders(DelSetCookie(rw.header)) :
          LET s == sendHeaders(rw, w, 200, order)
          IN /\ rw' = [s.rw EXCEPT !.body = <<>>]
             /\ w' = Append(s.w, "\"}")
    /\ httpPc' = "finished"
    /\ httpRet' = NoErr
    /\ UNCHANGED <<ops, proxyRequest, httpReq>>
    /\ UNCHANGED bridgeVars
    /\ UNCHANGED concVars

\* responseWriter.finish, after ServeHTTP returned
finish ==
    /\ httpPc = "serving"
    /\ \E order \in KeyOrders(DelSetCookie(rw.header)) :
          LET s == sendHeaders(rw, w, 200, order)
          IN /\ rw' = [s.rw EXCEPT !.body = <<>>]
             /\ w' = Append(SinkWrite(s.w, EncodeLast(s.rw.body)), "\"}")
    /\ httpPc' = "finished"
    /\ httpRet' = NoErr
    /\ UNCHANGED <<ops, proxyRequest, httpReq>>
    /\ UNCHANGED bridgeVars
    /\ UNCHANGED concVars

HttpNext ==
    \/ Decode
    \/ \E k \in HeaderKeys : \E v \in HeaderValues[k] : HeaderAdd(k, v)
    \/ \E c \in StatusCodes : WriteHeader(c)
    \/ \E p \in Bodies : Write(p)
    \/ finish

\* ===================================== concurrent WriteHeader and Write
\* the header map the handler built before its goroutines start
ConcHeaders ==
    {[k \in HeaderKeys |-> <<>>],
     [k \in HeaderKeys |-> IF k = "Set-Cookie" THEN <<"x=1">>
                           ELSE IF k = "X-Id" THEN <<"7">> ELSE <<>>]}

ConcInit ==
    /\ ops = <<>>
    /\ rw \in [body : {<<>>}, sentHeaders : {FALSE}, header : ConcHeaders]
    /\ w = <<>>
    /\ httpPc = "serving"
    /\ proxyRequest = [wellFormed |-> TRUE, IsBase64Encoded |-> FALSE, Body |-> <<>>,
                       RawPath |-> <<"/", "a">>, RawQueryString |-> <<>>]
    /\ httpReq = HttpDecode(proxyRequest).req
    /\ httpRet = "none"
    /\ ConcIdle

ConcFrame == UNCHANGED <<ops, httpPc, proxyRequest, httpReq, httpRet>> /\ UNCHANGED bridgeVars

\* goroutine t calls WriteHeader(statusCode) or Write(p)
Call(t, o) ==
    /\ thr[t].pc = "idle"
    /\ thr' = [thr EXCEPT ![t] = [pc |-> "lock", op |-> o]]
    /\ UNCHANGED <<rw, w, mu, encoderSet, lockOrder>>
    /\ ConcFrame

\* faulty variant: the call goes on without holding mu
LockNotHeld(t) ==
    /\ thr[t].pc = "lock"
    /\ lockOrder' = Append(lockOrder, t)
    /\ thr' = [thr EXCEPT ![t].pc = "check"]
    /\ UNCHANGED <<rw, w, mu, encoderSet>>
    /\ ConcFrame

\* r.mu.Lock()
Lock(t) ==
    /\ thr[t].pc = "lock"
    /\ mu = 0
    /\ mu' = t
    /\ lockOrder' = Append(lockOrder, t)
    /\ thr' = [thr EXCEPT ![t].pc = "check"]
    /\ UNCHANGED <<rw, w, encoderSet>>
    /\ ConcFrame

\* where a call goes when sendHeaders has returned
AfterSendHeaders(o) == IF o.op = "Write" THEN "write" ELSE "unlock"
SentCode(o) == IF o.op = "Write" THEN 200 ELSE o.code

\* sendHeaders: if r.sentHeaders { return }
CheckSent(t) ==
    /\ thr[t].pc = "check"
    /\ thr' = [thr EXCEPT ![t].pc = IF rw.sentHeaders THEN AfterSendHeaders(thr[t].op)
                                     ELSE "set"]
    /\ UNCHANGED <<rw, w, mu, encoderSet, lockOrder>>
    /\ ConcFrame

\* sendHeaders: r.sentHeaders = true
SetSent(t) ==
    /\ thr[t].pc = "set"
    /\ rw' = [rw EXCEPT !.sentHeaders = TRUE]
    /\ thr' = [thr EXCEPT ![t].pc = "preamble"]
    /\ UNCHANGED <<w, mu, encoderSet, lockOrder>>
    /\ ConcFrame

\* sendHeaders: build dst (the Set-Cookie entry leaves the map) and r.w.Write(dst)
WritePreamble(t) ==
    /\ thr[t].pc = "preamble"
    /\ \E order \in KeyOrders(DelSetCookie(rw.header)) :
          w' = Append(w, Preamble(SentCode(thr[t].op), rw.header["Set-Cookie"],
                                  DelSetCookie(rw.header), order))
    /\ rw' = [rw EXCEPT !.header = DelSetCookie(rw.header)]
    /\ thr' = [thr EXCEPT ![t].pc = "encoder"]
    /\ UNCHANGED <<mu, encoderSet, lockOrder>>
    /\ ConcFrame

\* sendHeaders: r.body = base64.NewEncoder(base64.StdEncoding, r.w)
NewEncoder(t) ==
    /\ thr[t].pc = "encoder"
    /\ rw' = [rw EXCEPT !.body = <<>>]
    /\ encoderSet' = TRUE
    /\ thr' = [thr EXCEPT ![t].pc = AfterSendHeaders(thr[t].op)]
    /\ UNCHANGED <<w, mu, lockOrder>>
    /\ ConcFrame

\* Write: r.body.Write(p); a nil r.body is a nil-pointer panic
BodyWrite(t) ==
    /\ thr[t].pc = "write"
    /\ IF encoderSet
       THEN /\ w' = SinkWrite(w, EncodeGroups(rw.body \o thr[t].op.data))
            /\ rw' = [rw EXCEPT !.body = Rest(rw.body \o thr[t].op.data)]
            /\ thr' = [thr EXCEPT ![t].pc = "unlock"]
       ELSE /\ thr' = [thr EXCEPT ![t].pc = "panicked"]
            /\ UNCHANGED <<rw, w>>
    /\ UNCHANGED <<mu, encoderSet, lockOrder>>
    /\ ConcFrame

\* r.mu.Unlock()
Unlock(t) ==
    /\ thr[t].pc = "unlock"
    /\ mu' = IF mu = t THEN 0 ELSE mu
    /\ thr' = [thr EXCEPT ![t].pc = "done"]
    /\ UNCHANGED <<rw, w, encoderSet, lockOrder>>
    /\ ConcFrame

ConcNext ==
    \E t \in Goroutines :
        \/ \E c \in StatusCodes : Call(t, Op("WriteHeader", c, "", "", <<>>))
        \/ \E p \in Bodies : Call(t, Op("Write", 0, "", "", p))
        \/ Lock(t)
        \/ CheckSent(t)
        \/ SetSent(t)
        \/ WritePreamble(t)
        \/ NewEncoder(t)
        \/ BodyWrite(t)
        \/ Unlock(t)

Next ==
    \/ RootCancel
    \/ DeadlineExpire
    \/ StartLoop
    \/ \E d \in {"zero", "future", "past"}, n \in 0..MaxBody : NextInvocationOk(d, n)
    \/ NextInvocationFail
    \/ \E h \in HandlerKinds : Dispatch(h)
    \/ \E e \in Envelopes : Invoke(e)
    \/ Peek
    \/ InvocationError
    \/ \E res \in {"ok", "error"} : InvocationErrorReturn(res)
    \/ InvocationResponse
    \/ BodyRead
    \/ InvocationResponseAbort
    \/ \E res \in {"ok", "error"} : InvocationResponseReturn(res)
    \/ DeferPipe
    \/ DeferCtx
    \/ DrainBody
    \/ CloseBody
    \/ HandlerRead
    \/ \E c \in Chunks : HandlerWrite(c)
    \/ HandlerWriteFail
    \/ \E e \in {NoErr, Canceled, DeadlineExceeded} \cup HandlerErrors : HandlerReturn(e)
    \/ HandlerClose
    \/ StragglerExit

Init == BridgeInit /\ HttpInit /\ proxyRequest = Malformed

\* HttpHandler invoked with any of the inbound envelopes
InitHttp == BridgeInit /\ HttpInit /\ proxyRequest \in Envelopes

\* Server.Start with a handler that writes byte chunks
Spec == Init /\ [][Next]_vars

\* an http.Handler whose goroutines call WriteHeader and Write concurrently
InitConc == BridgeInit /\ ConcInit

SpecConc == InitConc /\ [][ConcNext]_vars

\* HttpHandler: an http.Handler drives one responseWriter
SpecHttp == InitHttp /\ [][HttpNext]_vars

\* the handler returns once a Write on the closed pipe has failed
ReturnAfterFailedWrite ==
    /\ pipe.done
    /\ \E e \in {NoErr, Canceled, DeadlineExceeded} \cup HandlerErrors : HandlerReturn(e)

\* Server.Start with a scheduled handler goroutine: a Write blocked in
\* the select of io.Pipe wakes when the done channel is closed, a handler
\* whose Write failed returns, and the goroutine then closes the writer end
SpecLive ==
    /\ Init /\ [][Next]_vars
    /\ WF_vars(HandlerWriteFail)
    /\ WF_vars(ReturnAfterFailedWrite)
    /\ WF_vars(HandlerClose)

\* ====================================================== properties
RECURSIVE Flatten(_)
Flatten(ss) == IF ss = <<>> THEN <<>> ELSE Head(ss) \o Flatten(Tail(ss))

ErrorCalls == {k \in 1..Len(calls) : calls[k].op = "error"}
ResponseCalls == {k \in 1..Len(calls) : calls[k].op = "response"}
\* doWork has returned for the invocation of the latest successful poll
DoWorkReturned == req.polled /\ pc \in {"loop", "nextInvocation", "returned"}
HandlerReturned == task.pc \in {"returned", "exited"}

\* C1: an invocation whose handler returns a failure without having written
\* a byte gets no invocationResponse call, and by the time doWork returns it
\* got an invocationError call with its id, errorType "Handler.Error" and a
\* non-empty errorMessage.
C1_FailureBeforeFirstByteIsReported ==
    (HandlerReturned /\ task.ret # NoErr /\ task.wrote = <<>>) =>
        /\ ResponseCalls = {}
        /\ DoWorkReturned =>
              \E k \in ErrorCalls :
                  /\ calls[k].id = req.id
                  /\ calls[k].errorType = "Handler.Error"
                  /\ calls[k].errorMessage # ""

\* C2: once the pipe has accepted a byte of the handler, no invocationError
\* call is made for the invocation, whatever the handler returns afterwards;
\* when the handler has written a byte and then failed, doWork has made the
\* invocationResponse call by the time it returns.
C2_ByteThenFailureIsStreamed ==
    /\ task.wrote # <<>> => (ErrorCalls = {} /\ pc # "invocationError")
    /\ (HandlerReturned /\ task.ret # NoErr /\ task.wrote # <<>> /\ DoWorkReturned) =>
           \E k \in ResponseCalls : calls[k].id = req.id

C2_Witness ==
    /\ DoWorkReturned
    /\ task.pc = "exited" /\ task.ret = "boom" /\ Len(task.wrote) = 1
    /\ ResponseCalls # {} /\ ErrorCalls = {}

\* C3: the bytes the body stream has yielded, followed by the bytes still in
\* the bufio buffer, are exactly the chunks the pipe accepted, in order; when
\* the handler returned success no invocationError call is made, the stream
\* never ends with a read error, and when it reached end-of-stream it yielded
\* exactly the concatenation of the chunks.
C3_StreamIsConcatenationOfWrites ==
    /\ upload.read \o bufReader = Flatten(task.wrote)
    /\ (HandlerReturned /\ task.ret = NoErr) =>
          /\ ErrorCalls = {}
          /\ upload.end # "error"
          /\ upload.end = "eof" => upload.read = Flatten(task.wrote)

C3_Witness ==
    /\ DoWorkReturned
    /\ task.pc = "exited" /\ task.ret = NoErr
    /\ task.wrote = <<(<<80>>), (<<79, 78>>)>>
    /\ upload.end = "eof" /\ upload.read = <<80, 79, 78>>
    /\ Len(calls) = 1 /\ calls[1].op = "response" /\ calls[1].result = "ok"

\* C4 as stated: no failure of invocationResponse or invocationError reaches
\* Start, and after a failed call Start goes on polling: when Start has
\* returned, it is with the error of nextInvocation.
C4_OnlyPollErrorStopsLoop ==
    /\ startErr \in {NoErr, "next: error"}
    /\ (calls # <<>> /\ calls[Len(calls)].result = "error" /\ pc = "returned") =>
           startErr = "next: error"

\* C4 amended: no failure of invocationResponse or invocationError reaches
\* Start: after the call doWork runs its deferred calls and returns nil; Start
\* returns only with the error of nextInvocation, or with nil once the root
\* context is canceled.
C4_CallFailuresAreSwallowed ==
    /\ startErr \in {NoErr, "next: error"}
    /\ pc = "returned" => (startErr = "next: error" \/ parentDone)
    /\ (calls # <<>> /\ calls[Len(calls)].result = "error") =>
           pc \in {"deferPipe", "deferCtx", "deferBody", "loop", "nextInvocation", "returned"}

C4_Witness ==
    /\ pc = "nextInvocation"
    /\ ~parentDone
    /\ calls # <<>> /\ calls[1].result = "error"

\* C5: a step in which nextInvocation fails ends Start with that error and
\* launches no handler and makes no outbound call; once Start has returned
\* nothing is polled, launched or called any more.
C5_PollFailureIsFatal ==
    [][ /\ (pc = "nextInvocation" /\ pc' # pc /\ cur' = cur) =>
              /\ pc' = "returned" /\ startErr' = "next: error"
              /\ UNCHANGED <<req, task, calls, pipe, ctx>>
        /\ pc = "returned" =>
              /\ pc' = "returned"
              /\ UNCHANGED <<cur, req, calls, startErr>>
              /\ task.pc = "none" => task'.pc = "none" ]_vars

C5_Witness ==
    /\ pc = "returned" /\ startErr = "next: error"
    /\ cur = 0 /\ task.pc = "none" /\ calls = <<>>

\* C6: whenever Start is in a nextInvocation poll, the cycle of the invocation
\* before is over: its outbound call has returned, its context is canceled,
\* both pipe ends are closed and its body is drained and closed.
C6_NoPollBeforeCycleDone ==
    (pc = "nextInvocation" /\ req.polled) =>
        /\ Len(calls) = 1 /\ calls[1].result # "pending"
        /\ IsDone(ctx)
        /\ pipe.done /\ pipe.rerr # NoErr /\ pipe.werr # NoErr
        /\ req.body = 0 /\ req.closed

C6_Witness ==
    /\ pc = "nextInvocation" /\ req.polled
    /\ task.pc = "running"
    /\ calls[1].op = "response"

\* C7: when doWork has returned after a successful poll, the derived context
\* of the invocation is canceled.
C7_ScopeCanceledWhenDoWorkReturns ==
    DoWorkReturned => IsDone(ctx)

C7_Witness ==
    /\ pc = "loop" /\ req.polled /\ ~parentDone
    /\ req.deadline = "zero"
    /\ calls[1].op = "response" /\ calls[1].result = "error"
    /\ ctx = Canceled

CommitOp(os) ==
    IF \E k \in 1..Len(os) : os[k].op \in {"WriteHeader", "Write"}
    THEN CHOOSE k \in 1..Len(os) :
             /\ os[k].op \in {"WriteHeader", "Write"}
             /\ \A j \in 1..(k - 1) : os[j].op = "Header"
    ELSE 0

\* the status the commit carries: that of the first WriteHeader, 200 for a Write
CommitCode(os) ==
    IF CommitOp(os) # 0 /\ os[CommitOp(os)].op = "WriteHeader"
    THEN os[CommitOp(os)].code ELSE 200

\* the header map the Header().Add calls before the commit built
RECURSIVE HeaderOf(_)
HeaderOf(os) ==
    IF os = <<>> THEN [k \in HeaderKeys |-> <<>>]
    ELSE LET h == HeaderOf(SubSeq(os, 1, Len(os) - 1))
             o == os[Len(os)]
         IN IF o.op = "Header" THEN [h EXCEPT ![o.key] = Append(@, o.val)] ELSE h

HeaderAtCommit(os) ==
    HeaderOf(IF CommitOp(os) = 0 THEN os ELSE SubSeq(os, 1, CommitOp(os) - 1))

\* C10: the responseWriter commits exactly when the first WriteHeader or
\* Write is made (or at finish); the first Write to the sink is then the
\* preamble with the status of that first call (200 for a Write) and the
\* cookies and headers added before it, and it never changes; a WriteHeader or
\* a header change after the commit writes nothing to the sink.
C10_CommitIsOneTime ==
    /\ [](/\ rw.sentHeaders <=> (CommitOp(ops) # 0 \/ httpPc = "finished")
          /\ rw.sentHeaders =>
                /\ w # <<>>
                /\ \E order \in KeyOrders(DelSetCookie(HeaderAtCommit(ops))) :
                      w[1] = Preamble(CommitCode(ops),
                                      HeaderAtCommit(ops)["Set-Cookie"],
                                      DelSetCookie(HeaderAtCommit(ops)), order))
    /\ [][rw.sentHeaders =>
             /\ rw'.sentHeaders
             /\ Len(w') >= Len(w) /\ SubSeq(w', 1, Len(w)) = w
             /\ (ops' # ops /\ ops'[Len(ops')].op \in {"WriteHeader", "Header"}) => w' = w]_vars

\* WriteHeader(201), Write("hello"), WriteHeader(404), finish
C10_Witness ==
    /\ httpPc = "finished"
    /\ Len(ops) = 3
    /\ ops[1].op = "WriteHeader" /\ ops[1].code = 201
    /\ ops[2].op = "Write" /\ ops[2].data = <<104, 101, 108, 108, 111>>
    /\ ops[3].op = "WriteHeader" /\ ops[3].code = 404
    /\ w = <<"{\"isBase64Encoded\":true,\"statusCode\":201,\"body\":\"", "aGVs", "bG8=", "\"}">>
\* ------------------------------------------------------------ finish
RECURSIVE Concat(_)
Concat(ss) == IF ss = <<>> THEN "" ELSE Head(ss) \o Concat(Tail(ss))

\* the bytes the http.Handler passed to Write, in order
RECURSIVE BodyBytes(_)
BodyBytes(os) ==
    IF os = <<>> THEN <<>>
    ELSE (IF Head(os).op = "Write" THEN Head(os).data ELSE <<>>) \o BodyBytes(Tail(os))

\* the padded standard base64 text of a byte slice
PaddedText(bs) == EncodeGroups(bs) \o EncodeLast(Rest(bs))

CloseText == "\"}"

\* C11: before finish the sink never received the closing quote and brace;
\* after finish the sink holds, in order, the preamble of the commit (status
\* 200 and the headers present at finish when no WriteHeader or Write was
\* made), the padded base64 text of all the bytes written, and the closing
\* quote and brace, once, as the last write; without WriteHeader or Write the
\* output is the preamble for 200 directly followed by the closing.
C11_FinishCompletesEnvelope ==
    /\ httpPc = "serving" => \A k \in 1..Len(w) : w[k] # CloseText
    /\ httpPc = "finished" =>
          /\ Len(w) >= 2
          /\ \E order \in KeyOrders(DelSetCookie(HeaderAtCommit(ops))) :
                w[1] = Preamble(CommitCode(ops), HeaderAtCommit(ops)["Set-Cookie"],
                                DelSetCookie(HeaderAtCommit(ops)), order)
          /\ Concat(SubSeq(w, 2, Len(w) - 1)) = PaddedText(BodyBytes(ops))
          /\ w[Len(w)] = CloseText
          /\ \A k \in 1..(Len(w) - 1) : w[k] # CloseText
          /\ CommitOp(ops) = 0 =>
                /\ Len(w) = 2
                /\ CommitCode(ops) = 200
                /\ HeaderAtCommit(ops) = HeaderOf(ops)

\* Header().Add("X-Id", "7"), then finish
C11_Witness ==
    /\ httpPc = "finished"
    /\ Len(ops) = 1 /\ ops[1].op = "Header"
    /\ w = <<"{\"isBase64Encoded\":true,\"statusCode\":200,\"multiValueHeaders\":{\"X-Id\":[\"7\"]},\"body\":\"",
             "\"}">>

\* the header map without its Set-Cookie entry
OtherHeaders(h) == [k \in HeaderKeys |-> IF k = "Set-Cookie" THEN <<>> ELSE h[k]]
OtherKeys(h) == {k \in HeaderKeys \ {"Set-Cookie"} : h[k] # <<>>}
OtherOrders(h) ==
    {o \in [1..Cardinality(OtherKeys(h)) -> OtherKeys(h)] :
        \A i, j \in DOMAIN o : i # j => o[i] # o[j]}

\* C12: the step that commits empties the Set-Cookie entry of the header
\* map; the preamble carries a cookies array exactly when Set-Cookie values
\* were added before the commit, holding them in the order they were added,
\* and a multiValueHeaders object exactly when another header was added
\* before the commit, holding no Set-Cookie entry.
C12_CookiesLeaveTheHeaderMap ==
    /\ [](rw.sentHeaders =>
            LET h == HeaderAtCommit(ops)
                cs == h["Set-Cookie"]
            IN \E o \in OtherOrders(h) :
                  w[1] = "{\"isBase64Encoded\":true,\"statusCode\":" \o Itoa(CommitCode(ops)) \o ","
                         \o (IF cs = <<>> THEN ""
                             ELSE "\"cookies\":[" \o JoinQuoted(cs) \o "],")
                         \o (IF OtherKeys(h) = {} THEN ""
                             ELSE "\"multiValueHeaders\":{"
                                  \o HeaderEntries(OtherHeaders(h), o) \o "},")
                         \o "\"body\":\"")
    /\ [][(~rw.sentHeaders /\ rw'.sentHeaders) =>
             /\ rw'.header["Set-Cookie"] = <<>>
             /\ rw'.header = OtherHeaders(rw.header)]_vars

\* Add("Set-Cookie", "x=1"), Add("Set-Cookie", "y=2"), WriteHeader(201)
C12_Witness ==
    /\ Len(ops) = 3
    /\ ops[3].op = "WriteHeader"
    /\ rw.header["Set-Cookie"] = <<>>
    /\ w = <<"{\"isBase64Encoded\":true,\"statusCode\":201,\"cookies\":[\"x=1\",\"y=2\"],\"body\":\"">>

\* byte slices an http body is made of: "hello", "hi", "hel"
Payloads == Bodies \cup {<<104, 101, 108>>}

\* C13: when HttpHandler has decoded an envelope with isBase64Encoded true
\* whose body is the padded base64 text the encoder emits for some bytes
\* (and whose path and query parse), it has not failed and the body of the
\* http.Request is exactly those bytes.
C13_PaddedBodyRoundTrips ==
    \A bs \in Payloads :
        (/\ httpPc # "decoding"
         /\ proxyRequest.wellFormed /\ proxyRequest.IsBase64Encoded
         /\ Concat(proxyRequest.Body) = PaddedText(bs)
         /\ (UrlStr(proxyRequest) = <<>> \/ ParseRequestURI(UrlStr(proxyRequest)))) =>
            /\ httpPc # "failed"
            /\ httpRet \notin DecodeErrors
            /\ httpReq.Body = bs

\* C14: when HttpHandler has returned a decode error (malformed envelope,
\* undecodable base64 body, unparsable path and query, unreadable body) the
\* pipe never accepted a byte of the invocation, no invocationResponse call
\* is made or about to be made, and by the time doWork returns the
\* invocationError call was made with the invocation's id and that error.
C14_DecodeFailureIsReported ==
    (HandlerReturned /\ task.ret \in DecodeErrors) =>
        /\ task.wrote = <<>> /\ pipe.wr = <<>> /\ bufReader = <<>>
        /\ ResponseCalls = {}
        /\ pc \notin {"invocationResponse", "streaming", "responseWait"}
        /\ DoWorkReturned =>
              \E k \in ErrorCalls :
                  /\ calls[k].id = req.id
                  /\ calls[k].errorType = HandlerErrorType
                  /\ calls[k].errorMessage = task.ret

C14_Witness ==
    /\ DoWorkReturned
    /\ task.pc = "exited" /\ task.ret = ErrBase64
    /\ Len(calls) = 1 /\ calls[1].op = "error" /\ calls[1].result = "ok"
    /\ calls[1].errorMessage = ErrBase64

\* C15: when the handler has returned nil and the pipe never accepted a byte,
\* no invocationError call is made or about to be made, the Peek error is
\* io.EOF, the body stream yields no byte and no read error, and by the time
\* doWork returns the invocationResponse call was made with the invocation's
\* id.
C15_SuccessWithoutBytesIsStreamed ==
    (HandlerReturned /\ task.ret = NoErr /\ task.wrote = <<>>) =>
        /\ ErrorCalls = {}
        /\ pc \notin {"invocationError", "errorWait"}
        /\ pc # "peek" => err = EOF
        /\ upload.read = <<>> /\ upload.end # "error"
        /\ DoWorkReturned => \E k \in ResponseCalls : calls[k].id = req.id

C15_Witness ==
    /\ DoWorkReturned
    /\ task.pc = "exited" /\ task.ret = NoErr /\ task.wrote = <<>>
    /\ Len(calls) = 1 /\ calls[1].op = "response" /\ calls[1].result = "ok"
    /\ upload.end = "eof" /\ upload.read = <<>>

\* C16: when the handler has written a byte and then returned a failure, no
\* invocationError call is made, the body stream never reaches clean
\* end-of-stream, and when it ended with the read error it had yielded
\* exactly the bytes written before the failure.
C16_LateFailureEndsWithReadError ==
    (HandlerReturned /\ task.ret # NoErr /\ task.wrote # <<>>) =>
        /\ ErrorCalls = {}
        /\ upload.end # "eof"
        /\ upload.end = "error" => upload.read = Flatten(task.wrote)

\* the derived context of the invocation has been released by ctxDone()
Released == req.polled /\ pc \in {"deferBody", "loop", "nextInvocation", "returned"}
CallReturned == Len(calls) = 1 /\ calls[1].result # "pending"

\* C17 as stated: when ctxDone() has run, the handler goroutine has closed
\* its writer end and the outbound call has returned.
C17_ReleaseAfterHandlerClosed ==
    Released => (task.pc = "exited" /\ CallReturned)

\* C17 amended: when ctxDone() runs or has run, the outbound call has
\* returned and the writer end of the pipe is closed; it was closed by the
\* handler goroutine unless invocationResponse returned early with a
\* failure, in which case doWork's deferred close closed it while the
\* handler may still run.
C17_ReleaseAfterPipeClosed ==
    (Released \/ (req.polled /\ pc = "deferCtx")) =>
        /\ CallReturned
        /\ pipe.done /\ pipe.werr # NoErr /\ pipe.rerr # NoErr
        /\ task.pc # "exited" => (calls[1].op = "response" /\ calls[1].result = "error")

C17_Witness ==
    /\ pc = "deferBody" /\ ctx = Canceled /\ ~parentDone
    /\ task.pc = "running"
    /\ calls[1].op = "response" /\ calls[1].result = "error"
    /\ pipe.werr = EOF

\* C18: while the handler goroutine runs and the pipe has accepted no byte,
\* doWork stays in the Peek and has made no call; a step that ends the Peek
\* finds the handler in a Write or the writer end closed; a step that
\* cancels the context or passes the deadline leaves doWork in the Peek.
C18_PeekWaitsForTheHandler ==
    /\ []((task.pc \in {"decoding", "running"} /\ task.wrote = <<>>) =>
             (pc = "peek" /\ calls = <<>> /\ ~pipe.done))
    /\ [][/\ (pc = "peek" /\ pc' # "peek") => (pipe.wr # <<>> \/ pipe.werr # NoErr)
          /\ (pc = "peek" /\ ctx' # ctx) => pc' = "peek"]_vars

C18_Witness ==
    /\ pc = "peek" /\ parentDone /\ ctx = DeadlineExceeded
    /\ task.pc = "running" /\ task.wrote = <<>> /\ pipe.wr = <<>>

PreamblesOf(h) ==
    {Preamble(c, h["Set-Cookie"], DelSetCookie(h), o) :
        c \in StatusCodes \cup {200}, o \in KeyOrders(DelSetCookie(h))}
AllPreambles ==
    UNION {PreamblesOf(h) \cup PreamblesOf(DelSetCookie(h)) : h \in ConcHeaders}

\* the goroutines inside WriteHeader or Write, between Lock and Unlock
InCall == {t \in Goroutines : thr[t].pc \in {"check", "set", "preamble", "encoder", "write", "unlock"}}

\* C20: with goroutines calling WriteHeader and Write concurrently, at most
\* one goroutine is between Lock and Unlock; the sink receives the preamble
\* at most once, as its first write, carrying the status of the call that
\* acquired the lock first (200 for a Write) and the cookies and headers set
\* before; every later write to the sink is base64 body text, and no Write
\* finds the encoder missing.
C20_CommitOnceUnderConcurrency ==
    /\ Cardinality(InCall) <= 1
    /\ Cardinality({k \in 1..Len(w) : w[k] \in AllPreambles}) <= 1
    /\ \A t \in Goroutines : thr[t].pc # "panicked"
    /\ w # <<>> =>
          /\ lockOrder # <<>>
          /\ \E h \in ConcHeaders :
                /\ rw.header = DelSetCookie(h)
                /\ w[1] \in {Preamble(SentCode(thr[lockOrder[1]].op), h["Set-Cookie"],
                                      DelSetCookie(h), o) : o \in KeyOrders(DelSetCookie(h))}
    /\ (\A t \in Goroutines : thr[t].pc = "done") =>
          /\ Len(w) >= 1
          /\ Concat(SubSeq(w, 2, Len(w))) =
                EncodeGroups(Flatten([k \in 1..Len(lockOrder) |-> thr[lockOrder[k]].op.data]))

\* WriteHeader(404) and Write("hello") race and Write wins the lock
C20_Witness ==
    /\ \A t \in Goroutines : thr[t].pc = "done"
    /\ thr[1].op.op = "WriteHeader" /\ thr[1].op.code = 404
    /\ thr[2].op.op = "Write" /\ thr[2].op.data = <<104, 101, 108, 108, 111>>
    /\ lockOrder = <<2, 1>>
    /\ w = <<"{\"isBase64Encoded\":true,\"statusCode\":200,\"body\":\"", "aGVs">>

\* C21: an invocation gets at most one outbound call, and exactly one by
\* the time doWork returns; the call is made after the Peek has returned; an
\* invocationError call is made only when the pipe accepted no byte and the
\* transport was handed none.
C21_ExactlyOneOutboundCall ==
    /\ Len(calls) <= 1
    /\ Cardinality(ErrorCalls) + Cardinality(ResponseCalls) = Len(calls)
    /\ DoWorkReturned => Len(calls) = 1
    /\ calls # <<>> => (req.polled /\ calls[1].id = req.id /\ pc \notin {"dispatch", "peek"})
    /\ pc \in {"dispatch", "peek", "invocationError", "invocationResponse"} => calls = <<>>
    /\ (ErrorCalls # {} \/ pc = "invocationError") =>
          /\ task.wrote = <<>> /\ bufReader = <<>>
          /\ upload = NoUpload
          /\ err \notin {NoErr, EOF}

\* the second invocation of a run fails before its first byte
C21_Witness ==
    /\ DoWorkReturned /\ cur = 2
    /\ task.pc = "exited" /\ task.ret = "boom"
    /\ Len(calls) = 1 /\ calls[1].op = "error" /\ calls[1].id = 2
    /\ calls[1].result = "error"

\* a handler Write is pending or may be issued on a closed pipe
WriteOnClosedPipe == pipe.done /\ task.pc \in {"running", "writing"}

\* C22: when doWork has returned both pipe ends are closed; on the closed
\* pipe a pending Write is never accepted and returns, a Write issued later
\* does not block, and the goroutine of a handler that returns after a failed
\* Write ends (or is left behind by the next poll, which starts a new pipe).
C22_WriteNeverBlocksForever ==
    /\ [](DoWorkReturned => (pipe.done /\ pipe.rerr # NoErr /\ pipe.werr # NoErr))
    /\ [](WriteOnClosedPipe => (pipe.rerr # NoErr /\ pc \notin {"dispatch", "peek", "streaming"}))
    /\ [][(WriteOnClosedPipe /\ cur' = cur) =>
            /\ task'.wrote = task.wrote
            /\ task'.pc \in {"running", "returned"} \/ task' = task
            /\ pipe'.done]_vars
    /\ \A n \in 1..MaxPolls :
          (cur = n /\ WriteOnClosedPipe) ~> (task.pc = "exited" \/ cur > n)

\* doWork returned while a Write of the last invocation was pending, after
\* invocationResponse ended early with a failure
C22_Witness ==
    /\ cur = MaxPolls /\ DoWorkReturned
    /\ task.pc = "writing" /\ pipe.wr # <<>>
    /\ Len(calls) = 1 /\ calls[1].op = "response" /\ calls[1].result = "error"
    /\ task.wrote # <<>>

\* C23: a client call in progress can still return success while the root
\* context is live, whatever the state of the invocation's ctx, and cannot
\* once the root context is canceled; the expiry of the deadline changes
\* neither the calls nor the position of doWork; a handler that returned
\* DeadlineExceeded without a Write has its invocationError call made.
C23_CallsRunUnderRootScope ==
    /\ [](pc = "errorWait" => (ENABLED InvocationErrorReturn("ok") <=> ~parentDone))
    /\ [](pc = "responseWait" => (ENABLED InvocationResponseReturn("ok") <=> ~parentDone))
    /\ []((DoWorkReturned /\ HandlerReturned /\ task.ret = DeadlineExceeded /\ task.wrote = <<>>) =>
             /\ Len(calls) = 1 /\ calls[1].op = "error"
             /\ calls[1].errorMessage = DeadlineExceeded)
    /\ [][(req.deadline = "future" /\ req'.deadline = "past" /\ cur' = cur) =>
             (calls' = calls /\ pc' = pc /\ parentDone' = parentDone)]_vars

\* the deadline passed, the handler gave up with DeadlineExceeded before
\* writing, and the runtime API accepted the error report
C23_Witness ==
    /\ ~parentDone /\ ctx = DeadlineExceeded /\ req.deadline = "past"
    /\ task.ret = DeadlineExceeded /\ task.wrote = <<>>
    /\ Len(calls) = 1 /\ calls[1].op = "error"
    /\ calls[1].errorMessage = DeadlineExceeded /\ calls[1].result = "ok"
    /\ pc = "deferPipe"
====
